---- MODULE Spec2Model ----
(***************************************************************************)
(* Model of the zustand-expo-devtools bridge.                              *)
(*                                                                         *)
(* Origin side: the shared devtools client singleton (getOrCreateClient)   *)
(* and the store middleware (expoDevtoolsImpl) of src/src/withDevtools.ts  *)
(* and of its compiled build src/unnamed/part_006.  The two differ only in *)
(* createAction and in the flag that tells start-up from later edits; the  *)
(* variable build selects which of the two is running.                     *)
(*                                                                         *)
(* Observer side: the relay middleware of the web UI (api, connect,         *)
(* monitoring, dispatchRemoteAction, emit of src/unnamed/part_009) and      *)
(* nonReduxDispatch of src/webui/src/utils/monitorActions.ts.  The reducer  *)
(* that keeps the instance histories is not part of these sources and is    *)
(* modelled from the specification (sections 3 and 4.3).                    *)
(*                                                                         *)
(* JavaScript values are tagged records: Obj(f) is an object whose own     *)
(* keys are DOMAIN f, NullV is null and UndefinedV is undefined.           *)
(***************************************************************************)
EXTENDS Integers, Sequences, FiniteSets, TLC

\* ---------------------------------------------------------------- bounds
\* Sessions the host creates and operations (setState calls and observer
\* messages) it performs, in the two-session and in the one-session scenario.
NumSessions == 2
MaxOps == 2
MaxOpsOne == 3
\* Mutations and observer commands in the runs that join sessions and relay.
MaxOpsBridge == 1
\* Operations of the host in the runs with a reset of the singleton.
MaxOpsReset == 1
\* Longest computedStates among the histories handed to nonReduxDispatch.
MaxHistory == 2
\* Longest history the observer builds when eviction is not under study.
MaxLog == 3
\* How many times the App may hand a client to the relay.
MaxConnects == 2
\* maxAge: the number of entries the observer retains per instance.
MaxAge == 50

\* ---------------------------------------------------------------- values
Null == 0

Sessions == 1..NumSessions

Obj(f) == [t |-> "object", v |-> f]
NullV == [t |-> "null"]
UndefinedV == [t |-> "undefined"]

Truthy(x) == x.t = "object"

\* A number.
Num(n) == [t |-> "number", n |-> n]

Undefined == "undefined"
FallbackName == "zustand-store"
Names == {"A"}
OptionNames == Names \cup {Undefined}
\* The instance ids the observer addresses its messages to.
InstanceIds == Names

\* The snapshots an initializer may return.
InitialStates == { Obj([k \in {"count"} |-> 0]) }

\* The partial states a caller passes to setState.
Partials == { Obj([k \in {"text"} |-> 1]) }

\* The third argument of setState: absent, a name, or an object with a type.
NoAction == [kind |-> "undefined"]
NameAction(n) == [kind |-> "string", name |-> n]
ObjAction(ty) == [kind |-> "object", type |-> ty]
Actions == { NoAction, NameAction("inc"), ObjAction("dec") }

\* What an initializer does before it returns: nothing, or one setState call
\* (as a persistence layer restoring a saved state does).
NoCall == [kind |-> "none"]
EarlyCalls ==
  { NoCall }
  \cup { [kind |-> "setState", state |-> st, replace |-> r, action |-> a] :
           st \in Partials, r \in BOOLEAN, a \in Actions }

\* ----------------------------------------------------------- JSON texts
\* A text is what a string holds: the serialization of an object, the
\* literal null, or something that is not JSON.
JsonObjectText(f) == [tok |-> "object", v |-> f]
JsonNullText == [tok |-> "null"]
GarbageText == [tok |-> "garbage"]

\* JSON.parse: either returns a value or throws.
JSONparse(text) ==
  CASE text.tok = "object" -> [threw |-> FALSE, value |-> Obj(text.v)]
    [] text.tok = "null" -> [threw |-> FALSE, value |-> NullV]
    [] text.tok = "number" -> [threw |-> FALSE, value |-> Num(text.n)]
    [] OTHER -> [threw |-> TRUE]

\* Variant of safeJsonParse without the try/catch: the error of JSON.parse
\* leaves the function and nothing is logged.
safeJsonParseNoCatch(jsonString) ==
  LET r == JSONparse(jsonString)
  IN IF r.threw THEN [value |-> UndefinedV, errors |-> 0, threw |-> TRUE]
     ELSE [value |-> r.value, errors |-> 0, threw |-> FALSE]

\* safeJsonParse: the parsed value, or null after one console.error; errors
\* counts the console.error calls and threw says whether an error escaped.
safeJsonParse(jsonString) ==
  LET r == JSONparse(jsonString)
  IN IF r.threw THEN [value |-> NullV, errors |-> 1, threw |-> FALSE]
     ELSE [value |-> r.value, errors |-> 0, threw |-> FALSE]

\* message.state: not a string at all, or a string holding a text.
NoPayload == [kind |-> "undefined"]
StringPayload(text) == [kind |-> "string", text |-> text]
Payloads == { NoPayload,
              StringPayload(JsonObjectText([k \in {"count"} |-> 1])),
              StringPayload(JsonNullText),
              StringPayload(GarbageText) }

\* What JSON.stringify keeps of a value: an object loses every key whose
\* value is undefined, at any depth.
RECURSIVE jsonValue(_)
jsonValue(v) ==
  IF v.t = "object"
    THEN Obj([k \in {j \in DOMAIN v.v : v.v[j].t # "undefined"} |->
                jsonValue(v.v[k])])
    ELSE v

\* JSON.stringify: a string holding the value's text, or undefined for
\* undefined.
JSONstringify(v) ==
  CASE v.t = "undefined" -> NoPayload
    [] v.t = "object" -> StringPayload(JsonObjectText(jsonValue(v).v))
    [] v.t = "null" -> StringPayload(JsonNullText)
    [] v.t = "number" -> StringPayload([tok |-> "number", n |-> v.n])

\* ------------------------------------------------ instance histories
\* One instance's history as nonReduxDispatch reads it: computedStates, a
\* sequence of entries {state}, and currentStateIndex, counted from 0.
History(cs, i) == [computedStates |-> cs, currentStateIndex |-> i]

\* The instances argument: undefined, or an object whose states maps
\* instance ids to histories.
NoStates == [id \in {} |-> 0]
NoInstances == [defined |-> FALSE, states |-> NoStates]
Inst(states) == [defined |-> TRUE, states |-> states]

\* store.getState().instances of the web UI before any message.
InitialInstances ==
  [selected |-> Undefined, current |-> Undefined, sync |-> FALSE,
   options |-> {}, states |-> NoStates]

NoQuery == [message |-> "none"]

VARIABLES
  build,                        \* "ts" (withDevtools.ts) or "js" (part_006)
  sharedClient,                 \* module singleton: Null or a client
  clientInitializationPromise,  \* Null or the id of the shared promise
  clientInitialized,            \* the "already logged" flag
  promises,                     \* the connect attempts, by promise id
  pc,                           \* per session: position in start-up
  optionsName,                  \* per session: options.name
  initialState,                 \* per session: what the initializer returned
  store,                        \* per session: the store's state
  isRecording,                  \* per session
  client,                       \* per session: Null or the acquired client
  awaiting,                     \* per session: what initializeClient awaited
  isInitialized,                \* per session (ts build)
  isInitializing,               \* per session (js build)
  listeners,                    \* dispatch listeners, in registration order
  sent,                         \* messages handed to sendMessage, in order
  applied,                      \* per session: history of setState calls
  event,                        \* the operation performed by the last step
  ops,                          \* number of mutations and deliveries so far
  host,                         \* the scenario: what the host application does
  devToolsPluginClient,         \* relay: Null or the connected client
  relayListeners,               \* relay: listener sets registered by connect
  instances,                    \* relay: store.getState().instances
  query,                        \* the arguments of one nonReduxDispatch call
  delivered,                    \* channel: how many of sent reached the relay
  inbox                         \* channel: dispatch messages on their way to
                                \* the sessions

vars == << build, sharedClient, clientInitializationPromise, clientInitialized,
           promises, pc, optionsName, initialState, store, isRecording, client,
           awaiting, isInitialized, isInitializing, listeners, sent, applied,
           event, ops, host, devToolsPluginClient, relayListeners, instances,
           query, delivered, inbox >>

channelVars == << delivered, inbox >>

relayVars == << devToolsPluginClient, relayListeners, instances, query,
                channelVars >>

singletonVars == << sharedClient, clientInitializationPromise,
                    clientInitialized, promises >>

InitState(b) ==
  /\ build = b
  /\ sharedClient = Null
  /\ clientInitializationPromise = Null
  /\ clientInitialized = FALSE
  /\ promises = << >>
  /\ pc = [s \in Sessions |-> "absent"]
  /\ optionsName = [s \in Sessions |-> Undefined]
  /\ initialState = [s \in Sessions |-> UndefinedV]
  /\ store = [s \in Sessions |-> UndefinedV]
  /\ isRecording = [s \in Sessions |-> TRUE]
  /\ client = [s \in Sessions |-> Null]
  /\ awaiting = [s \in Sessions |-> [kind |-> "none"]]
  /\ isInitialized = [s \in Sessions |-> FALSE]
  /\ isInitializing = [s \in Sessions |-> TRUE]
  /\ listeners = << >>
  /\ sent = << >>
  /\ applied = [s \in Sessions |-> << >>]
  /\ event = [op |-> "none"]
  /\ ops = 0
  /\ devToolsPluginClient = Null
  /\ relayListeners = 0
  /\ instances = InitialInstances
  /\ delivered = 0
  /\ inbox = << >>

\* A scenario: how many stores the host creates and how many operations it
\* performs, whether it passes enabled: false, whether its initializers call
\* setState before returning, and whether the channel's sendMessage may throw;
\* what its stores expose besides the store api (dispatchFromDevtools, a
\* dispatch function, both or neither), and whether the channel also carries
\* the less usual messages.
Host(n, k) == [sessions |-> n, maxOps |-> k, mayDisable |-> FALSE,
               earlyCalls |-> FALSE, channelFails |-> FALSE,
               dispatcher |-> "none", extraMessages |-> FALSE]
Dispatchers == {"none", "flagOnly", "functionOnly", "both"}

Init ==
  /\ InitState("ts")
  /\ query = NoQuery
  /\ host = Host(NumSessions, MaxOps)

InitOne ==
  /\ InitState("ts")
  /\ query = NoQuery
  /\ host = Host(1, MaxOpsOne)

\* The compiled build instead of the TypeScript source, one session.
InitJs ==
  /\ InitState("js")
  /\ query = NoQuery
  /\ host = Host(1, MaxOpsOne)

\* Either build, one session whose initializer may call setState.
InitEarly ==
  /\ \E b \in {"ts", "js"} : InitState(b)
  /\ query = NoQuery
  /\ host = [Host(1, MaxOps) EXCEPT !.earlyCalls = TRUE]

\* One session over a channel whose sendMessage may throw.
InitFailing ==
  /\ InitState("ts")
  /\ query = NoQuery
  /\ host = [Host(1, MaxOpsOne) EXCEPT !.channelFails = TRUE]

\* One session of a store that may expose dispatchFromDevtools and dispatch,
\* on a channel that carries every kind of message.
InitAction ==
  /\ InitState("ts")
  /\ query = NoQuery
  /\ host \in { [Host(1, MaxOps) EXCEPT !.dispatcher = d,
                                        !.extraMessages = TRUE] :
                 d \in Dispatchers }

\* Two sessions in a process that may call __resetDevToolsClient.
InitReset ==
  /\ InitState("ts")
  /\ query = NoQuery
  /\ host = Host(NumSessions, MaxOpsReset)

\* Two sessions, each created with enabled true or false.
InitDisabled ==
  /\ InitState("ts")
  /\ query = NoQuery
  /\ host = [Host(NumSessions, MaxOps) EXCEPT !.mayDisable = TRUE]

\* ------------------------------------------------- the store (zustand)
\* Object.assign({}, state, next): a state that is not an object gives no keys.
ObjectAssign(state, next) ==
  LET old == IF state.t = "object" THEN DOMAIN state.v ELSE {}
  IN Obj([k \in old \cup DOMAIN next.v |->
            IF k \in DOMAIN next.v THEN next.v[k] ELSE state.v[k]])

\* The store's own setState(partial, replace): replace is either true or
\* not passed; a partial that is not an object always replaces.
originalSetState(state, partial, replaceTrue) ==
  IF replaceTrue \/ partial.t # "object"
    THEN partial
    ELSE ObjectAssign(state, partial)

\* --------------------------------------------------- shared client
\* Variant of getOrCreateClient without the in-flight check: a caller that
\* finds no cached client always starts a connect of its own.
\* A connect attempt that has just started; beforeReset records that
\* __resetDevToolsClient has been called since.
NewAttempt == [status |-> "pending", value |-> Null, beforeReset |-> FALSE]

getOrCreateClientNoInFlight ==
  IF sharedClient # Null
    THEN [result |-> [kind |-> "value", v |-> sharedClient],
          promise |-> clientInitializationPromise, attempts |-> promises]
  ELSE [result |-> [kind |-> "promise", p |-> Len(promises) + 1],
        promise |-> Len(promises) + 1,
        attempts |-> Append(promises, NewAttempt)]

\* Variant of getOrCreateClient that shares the promise only while its
\* connect is in flight and starts a new connect after a failed one.
getOrCreateClientRetrying ==
  IF sharedClient # Null
    THEN [result |-> [kind |-> "value", v |-> sharedClient],
          promise |-> clientInitializationPromise, attempts |-> promises]
  ELSE IF /\ clientInitializationPromise # Null
          /\ promises[clientInitializationPromise].status = "pending"
    THEN [result |-> [kind |-> "promise", p |-> clientInitializationPromise],
          promise |-> clientInitializationPromise, attempts |-> promises]
  ELSE [result |-> [kind |-> "promise", p |-> Len(promises) + 1],
        promise |-> Len(promises) + 1,
        attempts |-> Append(promises, NewAttempt)]

\* getOrCreateClient up to its first suspension: what the caller awaits and
\* what the call did to the singleton.
getOrCreateClient ==
  IF sharedClient # Null
    THEN [result |-> [kind |-> "value", v |-> sharedClient],
          promise |-> clientInitializationPromise, attempts |-> promises]
  ELSE IF clientInitializationPromise # Null
    THEN [result |-> [kind |-> "promise", p |-> clientInitializationPromise],
          promise |-> clientInitializationPromise, attempts |-> promises]
  ELSE [result |-> [kind |-> "promise", p |-> Len(promises) + 1],
        promise |-> Len(promises) + 1,
        attempts |-> Append(promises, NewAttempt)]

\* Number of calls of getDevToolsPluginClientAsync so far.
connectCalls == Len(promises)

\* ------------------------------------------------ session helpers
\* A context carries what one synchronous run of session code may change.
\* errors counts console.error calls, fail says whether client.sendMessage
\* throws during this run, threw whether an error left the session's code.
Ctx == [store |-> store, rec |-> isRecording, sent |-> sent, setCalls |-> << >>,
        errors |-> 0, fail |-> FALSE, threw |-> FALSE, dispatched |-> << >>]

AnonymousActionType == "anonymous"

sendInit(s, state, ctx, cause) ==
  IF client[s] = Null THEN ctx
  ELSE IF ctx.fail THEN [ctx EXCEPT !.threw = TRUE]
  ELSE [ctx EXCEPT !.sent = Append(@,
          [topic |-> "init", name |-> optionsName[s], type |-> Undefined,
           state |-> state, from |-> s, via |-> client[s], cause |-> cause])]

sendStateUpdate(s, actionType, state, ctx) ==
  IF ~ctx.rec[s] THEN ctx
  ELSE IF client[s] = Null THEN ctx
  ELSE IF ctx.fail THEN [ctx EXCEPT !.threw = TRUE]
  ELSE [ctx EXCEPT !.sent = Append(@,
          [topic |-> "state", name |-> optionsName[s], type |-> actionType,
           state |-> state, from |-> s, via |-> client[s],
           cause |-> "setState"])]

\* Variant of the setter that replaces the state.
setReplacing(s, state, ctx) ==
  [ctx EXCEPT !.store[s] = originalSetState(@, state, TRUE),
              !.setCalls = Append(@, [s |-> s, arg |-> state])]

\* The setter the store hands to the middleware: the store's setState,
\* called without replace.
set(s, state, ctx) ==
  [ctx EXCEPT !.store[s] = originalSetState(@, state, FALSE),
              !.setCalls = Append(@, [s |-> s, arg |-> state])]

\* Variant of setStateFromDevtools that switches recording back on after the
\* apply instead of restoring the saved flag.
setStateFromDevtoolsReenable(s, state, ctx) ==
  LET c1 == [ctx EXCEPT !.rec[s] = FALSE]
      c2 == set(s, state, c1)
  IN [c2 EXCEPT !.rec[s] = TRUE]

setStateFromDevtools(s, state, ctx) ==
  LET originalIsRecording == ctx.rec[s]
      c1 == [ctx EXCEPT !.rec[s] = FALSE]
      c2 == set(s, state, c1)
  IN [c2 EXCEPT !.rec[s] = originalIsRecording]

\* Variant of createAction (withDevtools.ts) that does not tell start-up
\* from later edits.
createActionTsNoPhase(s, nameOrAction) ==
  IF nameOrAction.kind = "undefined" THEN AnonymousActionType
  ELSE IF nameOrAction.kind = "string" THEN nameOrAction.name
  ELSE nameOrAction.type

\* createAction of src/src/withDevtools.ts: the type of the action object.
createActionTs(s, nameOrAction) ==
  IF nameOrAction.kind = "undefined"
    THEN IF ~isInitialized[s] THEN "@@HYDRATE" ELSE AnonymousActionType
  ELSE IF nameOrAction.kind = "string" THEN nameOrAction.name
  ELSE nameOrAction.type

\* createAction of the compiled build.
createActionJs(s, nameOrAction, replace) ==
  IF nameOrAction.kind = "undefined"
    THEN IF isInitializing[s] THEN "@@REHYDRATE"
         ELSE IF replace THEN "@@REHYDRATE"
         ELSE AnonymousActionType
  ELSE IF nameOrAction.kind = "string" THEN nameOrAction.name
  ELSE nameOrAction.type

\* Variant of createAction that takes a name but treats an action object as
\* no action at all.
createActionNamesOnly(s, nameOrAction, replace) ==
  IF nameOrAction.kind = "string" THEN nameOrAction.name
  ELSE IF build = "ts" THEN createActionTs(s, NoAction)
  ELSE createActionJs(s, NoAction, replace)

createAction(s, nameOrAction, replace) ==
  IF build = "ts" THEN createActionTs(s, nameOrAction)
  ELSE createActionJs(s, nameOrAction, replace)

\* Variant of the override that never looks at the recording flag.
apiSetStateIgnoringPause(s, state, replace, nameOrAction, ctx) ==
  LET c1 == [ctx EXCEPT !.store[s] = originalSetState(@, state, replace)]
      c2 == sendStateUpdate(s, createAction(s, nameOrAction, replace),
                            c1.store[s], [c1 EXCEPT !.rec[s] = TRUE])
  IN [c2 EXCEPT !.rec = c1.rec]

\* Variant of the override that reads the state to send before applying
\* the mutation.
apiSetStateSendFirst(s, state, replace, nameOrAction, ctx) ==
  LET c1 == [ctx EXCEPT !.store[s] = originalSetState(@, state, replace)]
  IN IF ~c1.rec[s] THEN c1
     ELSE sendStateUpdate(s, createAction(s, nameOrAction, replace),
                          ctx.store[s], c1)

\* The override installed on api.setState.
apiSetState(s, state, replace, nameOrAction, ctx) ==
  LET c1 == [ctx EXCEPT !.store[s] = originalSetState(@, state, replace)]
  IN IF ~c1.rec[s] THEN c1
     ELSE sendStateUpdate(s, createAction(s, nameOrAction, replace),
                          c1.store[s], c1)

\* -------------------------------------------- messages from the observer
\* message.action: absent, an object with a type, or a string holding JSON.
NoMsgAction == [kind |-> "undefined"]
ActionText(ty, st) == [kind |-> "string",
                       text |-> [tok |-> "action", type |-> ty, state |-> st]]
GarbageAction == [kind |-> "string", text |-> GarbageText]

\* safeJsonParse of an action string.
parseAction(a) ==
  IF a.text.tok = "action"
    THEN [value |-> [t |-> "object", type |-> a.text.type,
                     state |-> a.text.state],
          errors |-> 0, threw |-> FALSE]
    ELSE safeJsonParse(a.text)

\* What a call of safeJsonParse leaves behind in the running handler.
afterParse(r, ctx) ==
  [ctx EXCEPT !.errors = @ + r.errors, !.threw = @ \/ r.threw]

PayloadCommands == {"COMMIT", "ROLLBACK", "JUMP_TO_STATE", "JUMP_TO_ACTION"}
PlainCommands == {"RESET", "PAUSE_RECORDING"}

Msg(ty, a, st, id) == [type |-> ty, action |-> a, state |-> st, instanceId |-> id]

DispatchMessages ==
  { Msg("DISPATCH", ObjAction(c), NoPayload, id) :
      c \in PlainCommands, id \in InstanceIds }
  \cup { Msg("DISPATCH", ObjAction(c[1]), c[2], id) :
      c \in (PayloadCommands \X (Payloads \ {NoPayload}))
               \cup {<<"COMMIT", NoPayload>>},
      id \in InstanceIds }
  \cup { Msg("ACTION", a, NoPayload, id) :
      a \in { ActionText("__setState", Obj([k \in {"text"} |-> 1])),
              ActionText("other", UndefinedV) },
      id \in InstanceIds }
  \cup { Msg("START", NoMsgAction, NoPayload, Undefined) }
  \cup { Msg(Undefined, ObjAction("RESET"), NoPayload, id) : id \in InstanceIds }

\* Less usual messages: ACTION messages whose action is not a string, is not
\* JSON or is the text null, and the SYNC echo of the relay.
ExtraMessages ==
  { Msg("ACTION", a, NoPayload, id) :
      a \in { ObjAction("__setState"), NoMsgAction, GarbageAction,
              [kind |-> "string", text |-> JsonNullText] },
      id \in InstanceIds }
  \cup { Msg("SYNC", NoMsgAction,
             StringPayload(JsonObjectText([k \in {"count"} |-> 1])), id) :
           id \in InstanceIds }

\* The dispatch function of a store that has one (as the redux middleware
\* gives it): it reduces the action to a new state and sets it through
\* api.setState.
DispatchedState == Obj([k \in {"reduced"} |-> 1])
storeDispatch(s, action, ctx) ==
  apiSetState(s, DispatchedState, FALSE, ObjAction(action.type),
              [ctx EXCEPT !.dispatched = Append(@, [s |-> s, action |-> action])])

\* Variant of handleActionMessage that calls dispatch whenever it is a
\* function, whether or not the store sets dispatchFromDevtools.
handleActionMessageNoFlag(s, message, ctx) ==
  IF message.action.kind # "string" THEN ctx
  ELSE LET r == parseAction(message.action)
           action == r.value
           c0 == afterParse(r, ctx)
       IN IF r.threw \/ ~Truthy(action) THEN c0
          ELSE IF action.type = "__setState"
            THEN setStateFromDevtools(s, action.state, c0)
          ELSE IF host.dispatcher \in {"functionOnly", "both"}
            THEN storeDispatch(s, action, c0)
          ELSE c0

\* Handle ACTION type messages from devtools.
handleActionMessage(s, message, ctx) ==
  IF message.action.kind # "string" THEN ctx
  ELSE LET r == parseAction(message.action)
           action == r.value
           c0 == afterParse(r, ctx)
       IN IF r.threw \/ ~Truthy(action) THEN c0
          ELSE IF action.type = "__setState"
            THEN setStateFromDevtools(s, action.state, c0)
          ELSE IF host.dispatcher = "both"
            THEN storeDispatch(s, action, c0)
          ELSE c0

\* message.state as the command handlers read it: the result of
\* safeJsonParse when it is a string, nothing to apply otherwise.
payloadState(message) ==
  IF message.state.kind = "string"
    THEN safeJsonParse(message.state.text)
    ELSE [value |-> NullV, errors |-> 0, threw |-> FALSE]

handleReset(s, ctx) ==
  LET c1 == setStateFromDevtools(s, initialState[s], ctx)
  IN sendInit(s, c1.store[s], c1, "RESET")

handleCommit(s, message, ctx) ==
  LET r == payloadState(message)
      c0 == afterParse(r, ctx)
  IN IF ~r.threw /\ Truthy(r.value)
       THEN sendInit(s, r.value, c0, "COMMIT") ELSE c0

\* Variant of the ROLLBACK case that echoes the payload instead of the
\* store's state after the apply.
handleRollbackEchoPayload(s, message, ctx) ==
  LET r == payloadState(message)
      c0 == afterParse(r, ctx)
  IN IF ~r.threw /\ Truthy(r.value)
       THEN sendInit(s, r.value, setStateFromDevtools(s, r.value, c0),
                     "ROLLBACK")
       ELSE c0

handleRollback(s, message, ctx) ==
  LET r == payloadState(message)
      c0 == afterParse(r, ctx)
  IN IF ~r.threw /\ Truthy(r.value)
       THEN LET c1 == setStateFromDevtools(s, r.value, c0)
            IN sendInit(s, c1.store[s], c1, "ROLLBACK")
       ELSE c0

\* Variant of the jump case that answers with an init, as ROLLBACK does.
handleJumpWithInit(s, message, ctx) ==
  LET r == payloadState(message)
      c0 == afterParse(r, ctx)
  IN IF ~r.threw /\ Truthy(r.value)
       THEN LET c1 == setStateFromDevtools(s, r.value, c0)
            IN sendInit(s, c1.store[s], c1, "JUMP")
       ELSE c0

handleJump(s, message, ctx) ==
  LET r == payloadState(message)
      c0 == afterParse(r, ctx)
  IN IF ~r.threw /\ Truthy(r.value)
       THEN setStateFromDevtools(s, r.value, c0) ELSE c0

\* Variant of the PAUSE_RECORDING case that switches recording off instead
\* of toggling it.
handlePauseRecordingOff(s, ctx) == [ctx EXCEPT !.rec[s] = FALSE]

handlePauseRecording(s, ctx) == [ctx EXCEPT !.rec[s] = ~@]

\* Handle DISPATCH type messages from devtools.
handleDispatchMessage(s, message, ctx) ==
  IF message.action.kind # "object" THEN ctx
  ELSE LET ty == message.action.type
       IN CASE ty = "RESET" -> handleReset(s, ctx)
            [] ty = "COMMIT" -> handleCommit(s, message, ctx)
            [] ty = "ROLLBACK" -> handleRollback(s, message, ctx)
            [] ty \in {"JUMP_TO_STATE", "JUMP_TO_ACTION"} ->
                 handleJump(s, message, ctx)
            [] ty = "PAUSE_RECORDING" -> handlePauseRecording(s, ctx)
            [] OTHER -> ctx

\* The name a session compares instance ids with.
configuredName(s) ==
  IF optionsName[s] # Undefined THEN optionsName[s] ELSE FallbackName

\* Variant of the listener that answers the observer's START with an init.
dispatchListenerInitOnStart(s, message, ctx) ==
  IF message.type = Undefined /\ message.instanceId # configuredName(s)
    THEN ctx
  ELSE CASE message.type = "ACTION" -> handleActionMessage(s, message, ctx)
         [] message.type = "DISPATCH" -> handleDispatchMessage(s, message, ctx)
         [] message.type = "START" -> sendInit(s, ctx.store[s], ctx, "START")
         [] OTHER -> ctx

\* Variant of the listener that applies the relay's SYNC echo through
\* api.setState, as a recorded change.
dispatchListenerAppliesSync(s, message, ctx) ==
  IF message.type = Undefined /\ message.instanceId # configuredName(s)
    THEN ctx
  ELSE CASE message.type = "ACTION" -> handleActionMessage(s, message, ctx)
         [] message.type = "DISPATCH" -> handleDispatchMessage(s, message, ctx)
         [] message.type = "SYNC" ->
              apiSetState(s, Obj([k \in {"text"} |-> 1]), FALSE,
                          ObjAction("SYNC"), ctx)
         [] OTHER -> ctx

\* The listener registered on the "dispatch" topic by initializeClient.
dispatchListener(s, message, ctx) ==
  IF message.type = Undefined /\ message.instanceId # configuredName(s)
    THEN ctx
  ELSE CASE message.type = "ACTION" -> handleActionMessage(s, message, ctx)
         [] message.type = "DISPATCH" -> handleDispatchMessage(s, message, ctx)
         [] OTHER -> ctx

\* The channel calls every registered listener, in registration order.
RECURSIVE deliver(_, _, _)
deliver(ls, message, ctx) ==
  IF ls = << >> THEN ctx
  ELSE deliver(Tail(ls), message, dispatchListener(Head(ls), message, ctx))

\* ------------------------------------------------------------- actions
\* One entry of the history of setState calls: the action type createAction
\* gave the call, the store's state after it, and the circumstances.
Applied(s, call, c, during) ==
  [type |-> createAction(s, call.action, call.replace),
   state |-> c.store[s],
   recording |-> isRecording[s],
   ready |-> client[s] # Null,
   during |-> during,
   action |-> call.action,
   replace |-> call.replace]

\* The middleware with enabled: false: the initializer runs on the store's
\* own set, get and api; nothing is installed and nothing is acquired.
WrapDisabled(s, name, st) ==
  /\ optionsName' = [optionsName EXCEPT ![s] = name]
  /\ store' = [store EXCEPT ![s] = st]
  /\ pc' = [pc EXCEPT ![s] = "disabled"]
  /\ UNCHANGED << singletonVars, initialState, isInitializing, awaiting,
                  isRecording, sent, applied >>

\* The middleware when enabled: it installs the override, runs the
\* initializer on it (the store takes what the initializer returns, whatever
\* the initializer set before), then starts initializeClient, which suspends
\* in getOrCreateClient.
WrapEnabled(s, name, st, early) ==
  /\ LET g == getOrCreateClient
     IN /\ promises' = g.attempts
        /\ clientInitializationPromise' = g.promise
        /\ awaiting' = [awaiting EXCEPT ![s] = g.result]
  /\ IF early.kind = "setState"
       THEN LET c == apiSetState(s, early.state, early.replace, early.action,
                                 Ctx)
            IN /\ isRecording' = c.rec
               /\ sent' = c.sent
               /\ applied' = [applied EXCEPT ![s] =
                                Append(@, Applied(s, early, c, "initializer"))]
       ELSE UNCHANGED << isRecording, sent, applied >>
  /\ optionsName' = [optionsName EXCEPT ![s] = name]
  /\ initialState' = [initialState EXCEPT ![s] = st]
  /\ store' = [store EXCEPT ![s] = st]
  /\ isInitializing' = [isInitializing EXCEPT ![s] = FALSE]
  /\ pc' = [pc EXCEPT ![s] = "awaitClient"]
  /\ UNCHANGED << sharedClient, clientInitialized >>

\* Variant of the middleware that never looks at options.enabled.
WrapIgnoringEnabled(s, name, st, enabled, early) ==
  /\ pc[s] = "absent"
  /\ s <= host.sessions
  /\ \A r \in Sessions : r < s => pc[r] # "absent"
  /\ ~enabled => host.mayDisable
  /\ early # NoCall => host.earlyCalls
  /\ WrapEnabled(s, name, st, early)
  /\ event' = [op |-> "wrap", s |-> s, enabled |-> enabled]
  /\ UNCHANGED relayVars
  /\ UNCHANGED << build, client, isInitialized, listeners, ops, host >>

\* The host creates a store through the middleware.
Wrap(s, name, st, enabled, early) ==
  /\ pc[s] = "absent"
  /\ s <= host.sessions
  /\ \A r \in Sessions : r < s => pc[r] # "absent"
  /\ ~enabled => host.mayDisable
  /\ early # NoCall => (host.earlyCalls /\ enabled)
  /\ IF enabled THEN WrapEnabled(s, name, st, early)
                ELSE WrapDisabled(s, name, st)
  /\ event' = [op |-> "wrap", s |-> s, enabled |-> enabled]
  /\ UNCHANGED relayVars
  /\ UNCHANGED << build, client, isInitialized, listeners, ops, host >>

\* getDevToolsPluginClientAsync settles: the body of the shared promise
\* resumes, caches the client on success, and resolves the promise.
ConnectSettles(p, ok) ==
  /\ p \in 1..Len(promises)
  /\ promises[p].status = "pending"
  /\ IF ok
       THEN /\ sharedClient' = p
            /\ clientInitialized' = TRUE
            /\ promises' = [promises EXCEPT ![p].status = "resolved",
                                            ![p].value = p]
       ELSE /\ promises' = [promises EXCEPT ![p].status = "resolved",
                                            ![p].value = Null]
            /\ UNCHANGED << sharedClient, clientInitialized >>
  /\ event' = [op |-> "connect", p |-> p, ok |-> ok]
  /\ UNCHANGED relayVars
  /\ UNCHANGED << build, clientInitializationPromise, pc, optionsName,
                  initialState, store, isRecording, client, awaiting,
                  isInitialized, isInitializing, listeners, sent, applied, ops,
                  host >>

\* initializeClient resumes after its await: stores the client and, if
\* there is one, registers the dispatch listener.
awaitedValue(s) ==
  IF awaiting[s].kind = "value" THEN awaiting[s].v
  ELSE promises[awaiting[s].p].value

\* Variant of initializeClient that registers its listener without checking
\* that it got a client.
InitializeClientResumesUnchecked(s) ==
  /\ pc[s] = "awaitClient"
  /\ \/ awaiting[s].kind = "value"
     \/ /\ awaiting[s].kind = "promise"
        /\ promises[awaiting[s].p].status = "resolved"
  /\ client' = [client EXCEPT ![s] = awaitedValue(s)]
  /\ listeners' = Append(listeners, s)
  /\ pc' = [pc EXCEPT ![s] = "thenPending"]
  /\ event' = [op |-> "resume", s |-> s]
  /\ UNCHANGED relayVars
  /\ UNCHANGED << build, singletonVars, optionsName, initialState, store,
                  awaiting,
                  isRecording, isInitialized, isInitializing, sent, applied,
                  ops, host >>

InitializeClientResumes(s) ==
  /\ pc[s] = "awaitClient"
  /\ \/ awaiting[s].kind = "value"
     \/ /\ awaiting[s].kind = "promise"
        /\ promises[awaiting[s].p].status = "resolved"
  /\ client' = [client EXCEPT ![s] = awaitedValue(s)]
  /\ listeners' = IF awaitedValue(s) # Null THEN Append(listeners, s)
                  ELSE listeners
  /\ pc' = [pc EXCEPT ![s] = "thenPending"]
  /\ event' = [op |-> "resume", s |-> s]
  /\ UNCHANGED relayVars
  /\ UNCHANGED << build, singletonVars, optionsName, initialState, store,
                  awaiting,
                  isRecording, isInitialized, isInitializing, sent, applied,
                  ops, host >>

\* Variant of the start-up callback that sends the store's current state
\* instead of the snapshot the initializer returned.
StartupThenCurrentState(s) ==
  /\ pc[s] = "thenPending"
  /\ sent' = sendInit(s, store[s], Ctx, "startup").sent
  /\ isInitialized' = [isInitialized EXCEPT ![s] = TRUE]
  /\ pc' = [pc EXCEPT ![s] = "started"]
  /\ event' = [op |-> "then", s |-> s]
  /\ UNCHANGED relayVars
  /\ UNCHANGED << build, singletonVars, optionsName, initialState, store,
                  isRecording, client, awaiting, isInitializing, listeners,
                  applied, ops, host >>

\* The callback chained on initializeClient(): the start-up init message.
StartupThen(s) ==
  /\ pc[s] = "thenPending"
  /\ sent' = sendInit(s, initialState[s], Ctx, "startup").sent
  /\ isInitialized' = [isInitialized EXCEPT ![s] = TRUE]
  /\ pc' = [pc EXCEPT ![s] = "started"]
  /\ event' = [op |-> "then", s |-> s]
  /\ UNCHANGED relayVars
  /\ UNCHANGED << build, singletonVars, optionsName, initialState, store,
                  isRecording, client, awaiting, isInitializing, listeners,
                  applied, ops, host >>

\* The host calls the store's setState: the override when the middleware
\* installed one, the store's own otherwise.  fail says whether the channel's
\* sendMessage throws during the call.
SetState(s, state, replace, nameOrAction, fail) ==
  /\ pc[s] # "absent"
  /\ ops < host.maxOps
  /\ fail => host.channelFails
  /\ LET call == [state |-> state, replace |-> replace,
                  action |-> nameOrAction]
         c == IF pc[s] = "disabled"
                THEN [Ctx EXCEPT !.store[s] =
                                   originalSetState(@, state, replace)]
                ELSE apiSetState(s, state, replace, nameOrAction,
                                 [Ctx EXCEPT !.fail = fail])
     IN /\ store' = c.store
        /\ isRecording' = c.rec
        /\ sent' = c.sent
        /\ applied' = IF pc[s] = "disabled" THEN applied
                      ELSE [applied EXCEPT ![s] =
                              Append(@, Applied(s, call, c, "host"))]
        /\ event' = [op |-> "setState", s |-> s, state |-> state,
                     replace |-> replace, action |-> nameOrAction,
                     threw |-> c.threw]
  /\ ops' = ops + 1
  /\ UNCHANGED relayVars
  /\ UNCHANGED << build, singletonVars, pc, optionsName, initialState, client,
                  awaiting, isInitialized, isInitializing, listeners, host >>

\* The observer sends a message on the "dispatch" topic.
Dispatch(message) ==
  /\ listeners # << >>
  /\ ops < host.maxOps
  /\ message \in ExtraMessages => host.extraMessages
  /\ LET c == deliver(listeners, message, Ctx)
     IN /\ store' = c.store
        /\ isRecording' = c.rec
        /\ sent' = c.sent
        /\ event' = [op |-> "dispatch", message |-> message,
                     setCalls |-> c.setCalls, errors |-> c.errors,
                     threw |-> c.threw, dispatched |-> c.dispatched]
  /\ ops' = ops + 1
  /\ UNCHANGED relayVars
  /\ UNCHANGED << build, singletonVars, pc, optionsName, initialState, client,
                  awaiting, isInitialized, isInitializing, listeners, applied,
                  host >>

\* The host calls __resetDevToolsClient.
Reset ==
  /\ sharedClient' = Null
  /\ clientInitializationPromise' = Null
  /\ clientInitialized' = FALSE
  /\ promises' = [p \in DOMAIN promises |->
                    [promises[p] EXCEPT !.beforeReset = TRUE]]
  /\ event' = [op |-> "reset"]
  /\ UNCHANGED relayVars
  /\ UNCHANGED << build, pc, optionsName, initialState, store, isRecording,
                  client, awaiting, isInitialized, isInitializing, listeners,
                  sent, applied, ops, host >>

Next ==
  \/ \E s \in Sessions, name \in OptionNames, st \in InitialStates,
        enabled \in BOOLEAN, early \in EarlyCalls :
       Wrap(s, name, st, enabled, early)
  \/ \E p \in 1..NumSessions, ok \in BOOLEAN : ConnectSettles(p, ok)
  \/ \E s \in Sessions : InitializeClientResumes(s)
  \/ \E s \in Sessions : StartupThen(s)
  \/ \E s \in Sessions, state \in Partials, replace \in BOOLEAN,
        nameOrAction \in Actions, fail \in BOOLEAN :
       SetState(s, state, replace, nameOrAction, fail)
  \/ \E message \in DispatchMessages \cup ExtraMessages : Dispatch(message)

\* Two sessions in one process.
Spec == Init /\ [][Next]_vars

\* One session, a longer run.
SpecOne == InitOne /\ [][Next]_vars

\* One session running the compiled build.
SpecJs == InitJs /\ [][Next]_vars

\* Either build, with initializers that call setState.
SpecEarly == InitEarly /\ [][Next]_vars

\* One session over a channel that may throw.
SpecFailing == InitFailing /\ [][Next]_vars

\* One session of a store with or without a dispatch function.
SpecAction == InitAction /\ [][Next]_vars

\* Two sessions in a process that may reset the singleton.
NextReset == Next \/ Reset

SpecReset == InitReset /\ [][NextReset]_vars

\* Two sessions, enabled or not.
SpecDisabled == InitDisabled /\ [][Next]_vars

\* ===================================================== observer side
\* ------------------------------------------------- nonReduxDispatch
\* computedStates[n]?.state, n counted from 0.
entryState(history, n) ==
  IF n + 1 \in DOMAIN history.computedStates
    THEN history.computedStates[n + 1].state
    ELSE UndefinedV

\* The nested .state of a computed state that is an object with a state
\* key, the computed state itself otherwise.
nestedState(computedState) ==
  IF Truthy(computedState) /\ "state" \in DOMAIN computedState.v
    THEN computedState.v["state"]
    ELSE computedState

\* Variant of nonReduxDispatch that reads the history of the instance
\* without checking that there is one.
nonReduxDispatchNoInstanceCheck(message, instanceId, action, state, insts) ==
  IF message # "DISPATCH"
    THEN [threw |-> FALSE, value |-> JSONstringify(state)]
  ELSE IF ~insts.defined \/ instanceId \notin DOMAIN insts.states
    THEN [threw |-> TRUE, value |-> NoPayload]
  ELSE LET nextStoreState == insts.states[instanceId]
           nextStateIndex ==
             IF action.kind = "object" /\ action.type = "ROLLBACK"
               THEN 0 ELSE nextStoreState.currentStateIndex
       IN [threw |-> FALSE,
           value |-> JSONstringify(
             nestedState(entryState(nextStoreState, nextStateIndex)))]

\* Variant of nonReduxDispatch that reads the .state of the entry without
\* checking that there is an entry.
nonReduxDispatchNoEntryCheck(message, instanceId, action, state, insts) ==
  LET known == insts.defined /\ instanceId \in DOMAIN insts.states
      nextStateIndex ==
        IF action.kind = "object" /\ action.type = "ROLLBACK"
          THEN 0 ELSE insts.states[instanceId].currentStateIndex
  IN IF message = "DISPATCH" /\ known
       THEN IF nextStateIndex + 1
                 \notin DOMAIN insts.states[instanceId].computedStates
              THEN [threw |-> TRUE, value |-> NoPayload]
              ELSE [threw |-> FALSE,
                    value |-> JSONstringify(nestedState(
                      entryState(insts.states[instanceId], nextStateIndex)))]
       ELSE [threw |-> FALSE, value |-> JSONstringify(state)]

\* Variant of nonReduxDispatch that reads the current entry for every action
\* type.
nonReduxDispatchCurrentOnly(message, instanceId, action, state, insts) ==
  LET known == insts.defined /\ instanceId \in DOMAIN insts.states
  IN [threw |-> FALSE,
      value |-> JSONstringify(
        IF message = "DISPATCH" /\ known
          THEN nestedState(entryState(insts.states[instanceId],
                 insts.states[instanceId].currentStateIndex))
          ELSE state)]

\* Variant of nonReduxDispatch that sends the computed state as it is.
nonReduxDispatchNoUnwrap(message, instanceId, action, state, insts) ==
  LET known == insts.defined /\ instanceId \in DOMAIN insts.states
      nextStateIndex ==
        IF action.kind = "object" /\ action.type = "ROLLBACK"
          THEN 0 ELSE insts.states[instanceId].currentStateIndex
  IN [threw |-> FALSE,
      value |-> JSONstringify(
        IF message = "DISPATCH" /\ known
          THEN entryState(insts.states[instanceId], nextStateIndex)
          ELSE state)]

\* nonReduxDispatch: the string sent as the state of a lifted command (or
\* undefined), and whether the call threw.
nonReduxDispatch(message, instanceId, action, state, insts) ==
  LET known == insts.defined /\ instanceId \in DOMAIN insts.states
      nextStateIndex ==
        IF action.kind = "object" /\ action.type = "ROLLBACK"
          THEN 0 ELSE insts.states[instanceId].currentStateIndex
      nextState ==
        IF message = "DISPATCH" /\ known
          THEN nestedState(entryState(insts.states[instanceId],
                                      nextStateIndex))
          ELSE state
  IN [threw |-> FALSE, value |-> JSONstringify(nextState)]

\* The arguments nonReduxDispatch is called with.
EntryStates == { Obj([k \in {"count"} |-> Num(0)]),
                 Obj([k \in {"state"} |-> Obj([j \in {"count"} |-> Num(1)])]),
                 NullV }
RECURSIVE SeqsUpTo(_, _)
SeqsUpTo(S, n) ==
  IF n = 0 THEN { << >> }
  ELSE LET shorter == SeqsUpTo(S, n - 1)
       IN shorter \cup { Append(q, x) : q \in shorter, x \in S }
QueryHistories ==
  { History([i \in DOMAIN q |-> [state |-> q[i]]], n) :
      q \in SeqsUpTo(EntryStates, MaxHistory), n \in 0..MaxHistory }
QueryInstances ==
  { NoInstances, Inst(NoStates) }
  \cup { Inst([id \in {"A"} |-> h]) : h \in QueryHistories }
Queries ==
  [message : {"DISPATCH", "ACTION"},
   instanceId : {"A", FallbackName},
   action : { NoAction, ObjAction("ROLLBACK"), ObjAction("JUMP_TO_STATE") },
   state : { UndefinedV, Obj([k \in {"count"} |-> Num(5)]) },
   instances : QueryInstances]

\* One call of nonReduxDispatch on arbitrary arguments.
InitResolve ==
  /\ InitState("ts")
  /\ host = Host(0, 0)
  /\ query \in Queries

Resolve ==
  /\ query # NoQuery
  /\ event.op = "none"
  /\ event' = [op |-> "resolve",
               result |-> nonReduxDispatch(query.message, query.instanceId,
                            query.action, query.state, query.instances)]
  /\ UNCHANGED << build, singletonVars, pc, optionsName, initialState, store,
                  isRecording, client, awaiting, isInitialized, isInitializing,
                  listeners, sent, applied, ops, host, relayVars >>

NextResolve == Resolve

SpecResolve == InitResolve /\ [][NextResolve]_vars

\* ------------------------------------------------------------ relay
\* What the channel delivers to the observer: {name, type, state}.
Data(name, type, state) == [name |-> name, type |-> type, state |-> state]
MessageStates == { Obj([k \in {"count"} |-> Num(1)]),
                   Obj([k \in {"state"} |-> Obj([j \in {"count"} |-> Num(2)])]) }
ObserverData ==
  { Data(n, "inc", s) : n \in OptionNames, s \in MessageStates }
EvictionData ==
  { Data(n, "inc", Obj([k \in {"count"} |-> Num(1)])) : n \in OptionNames }

\* A message the relay sends on the "dispatch" topic.
DispatchMessage(type, action, state, instanceId) ==
  [topic |-> "dispatch", type |-> type, action |-> action, state |-> state,
   instanceId |-> instanceId]
PingReply == [topic |-> "ping", from |-> "devtools-ui"]

\* jsan's stringify of an instance history.
stringify(history) == StringPayload([tok |-> "history", v |-> history])

\* data.name || "zustand-store"
nameAsIs(data) == data.name

nameOrFallback(data) ==
  IF data.name = Undefined THEN FallbackName ELSE data.name

\* Variant of the "init" listener that uses data.name as it is.
initListenerNoFallback(data) ==
  [type |-> "INIT", payload |-> data.state, maxAge |-> MaxAge,
   id |-> data.name, instanceId |-> data.name]

\* The request the "init" listener hands to monitoring.
initListener(data) ==
  [type |-> "INIT", payload |-> data.state, maxAge |-> MaxAge,
   id |-> nameOrFallback(data), instanceId |-> nameOrFallback(data)]

\* Variant of the "state" listener that files every update under the
\* fallback id.
stateListenerOneId(data) ==
  [type |-> "ACTION",
   action |-> IF data.type = Undefined THEN "State Update" ELSE data.type,
   payload |-> JSONstringify(Obj([k \in {"state"} |-> data.state])),
   maxAge |-> MaxAge, id |-> FallbackName, instanceId |-> FallbackName]

\* Variant of the "state" listener that sends the state without the
\* {state: ...} envelope.
stateListenerNoEnvelope(data) ==
  [type |-> "ACTION",
   action |-> IF data.type = Undefined THEN "State Update" ELSE data.type,
   payload |-> JSONstringify(data.state),
   maxAge |-> MaxAge,
   id |-> nameOrFallback(data), instanceId |-> nameOrFallback(data)]

\* The request the "state" listener hands to monitoring.
stateListener(data) ==
  [type |-> "ACTION",
   action |-> IF data.type = Undefined THEN "State Update" ELSE data.type,
   payload |-> JSONstringify(Obj([k \in {"state"} |-> data.state])),
   maxAge |-> MaxAge,
   id |-> nameOrFallback(data), instanceId |-> nameOrFallback(data)]

\* The newest maxAge entries of a log.
RECURSIVE evict(_, _)
evict(log, maxAge) ==
  IF Len(log) > maxAge THEN evict(Tail(log), maxAge) ELSE log

\* Variant of the instances reducer that points at the index the new entry
\* had before the oldest entries were evicted.
updateStateStalePointer(insts, request) ==
  LET id == request.instanceId
      old == IF id \in DOMAIN insts.states
               THEN insts.states[id].computedStates ELSE << >>
      appended == Append(old, [state |-> JSONparse(request.payload.text).value])
      history ==
        IF request.type = "INIT"
          THEN History(<< [state |-> request.payload] >>, 0)
          ELSE History(evict(appended, request.maxAge), Len(appended) - 1)
  IN [insts EXCEPT
        !.current = id,
        !.options = @ \cup {id},
        !.states = [k \in (DOMAIN @) \cup {id} |->
                      IF k = id THEN history ELSE @[k]]]

\* The instances reducer on UPDATE_STATE: INIT creates or replaces the
\* history of the instance with a one-entry log; ACTION appends one entry
\* built from the parsed payload, evicts the oldest entries beyond maxAge
\* and points at the last entry.  The instance becomes the current one.
updateState(insts, request) ==
  LET id == request.instanceId
      old == IF id \in DOMAIN insts.states
               THEN insts.states[id].computedStates ELSE << >>
      kept == evict(
                Append(old, [state |-> JSONparse(request.payload.text).value]),
                request.maxAge)
      history ==
        IF request.type = "INIT"
          THEN History(<< [state |-> request.payload] >>, 0)
          ELSE History(kept, Len(kept) - 1)
  IN [insts EXCEPT
        !.current = id,
        !.options = @ \cup {id},
        !.states = [k \in (DOMAIN @) \cup {id} |->
                      IF k = id THEN history ELSE @[k]]]

\* The reducers of the UI's own steps.
selectInstance(insts, id) == [insts EXCEPT !.selected = id]
toggleSync(insts) == [insts EXCEPT !.sync = ~@]

\* getActiveInstance: the selected instance, or else the current one.
getActiveInstance(insts) ==
  IF insts.selected # Undefined THEN insts.selected ELSE insts.current

\* monitoring for the requests the two listeners make (INIT and ACTION):
\* dispatch UPDATE_STATE, then echo the history of the instance when sync
\* is on, the instance is the selected one and the request is an ACTION or
\* a STATE.
monitoring(request, r, connected) ==
  LET insts == updateState(r.instances, request)
      instanceId == request.instanceId
      sync == /\ insts.sync
              /\ instanceId = insts.selected
              /\ request.type \in {"ACTION", "STATE"}
  IN [instances |-> insts,
      out |-> IF sync /\ connected
                THEN Append(r.out,
                       DispatchMessage("SYNC", NoAction,
                         stringify(insts.states[instanceId]), instanceId))
                ELSE r.out]

\* The computedStates of an instance, empty when it has no history.
LogOf(insts, id) ==
  IF id \in DOMAIN insts.states THEN insts.states[id].computedStates
  ELSE << >>

\* One registered set of listeners receives a message on a topic.
listen(topic, data, r, connected) ==
  CASE topic = "init" -> monitoring(initListener(data), r, connected)
    [] topic = "state" -> monitoring(stateListener(data), r, connected)
    [] topic = "ping" -> [r EXCEPT !.out = Append(@, PingReply)]

\* Every registered set of listeners receives the message.
RECURSIVE listenAll(_, _, _, _, _)
listenAll(n, topic, data, r, connected) ==
  IF n = 0 THEN r
  ELSE listenAll(n - 1, topic, data, listen(topic, data, r, connected),
                 connected)

\* emit: send {type, action, state, instanceId} on the "dispatch" topic.
emit(action, connected) ==
  IF connected
    THEN << DispatchMessage(action.message, action.action, action.state,
                            action.instanceId) >>
    ELSE << >>

\* The middleware on an EMIT action: next(action), then emit when there is
\* a client.
apiEmit(action, connected) ==
  [passed |-> << action >>,
   out |-> IF connected THEN emit(action, connected) ELSE << >>,
   threw |-> FALSE]

\* Variant of dispatchRemoteAction that addresses the current instance
\* whatever the selection.
dispatchRemoteActionCurrentOnly(lifted, insts, connected) ==
  LET instanceId == insts.current
  IN IF ~lifted.toAll /\ instanceId \notin insts.options
       THEN [passed |-> << >>, out |-> << >>, threw |-> TRUE]
       ELSE apiEmit(
              [type |-> "EMIT", message |-> lifted.message,
               action |-> lifted.action,
               state |-> nonReduxDispatch(lifted.message, instanceId,
                           lifted.action, lifted.state,
                           Inst(insts.states)).value,
               instanceId |-> instanceId],
              connected)

\* dispatchRemoteAction: resolve the active instance and the state to send,
\* then dispatch an EMIT action.  Reading the connectionId of an instance
\* without options throws.
dispatchRemoteAction(lifted, insts, connected) ==
  LET instanceId == getActiveInstance(insts)
  IN IF ~lifted.toAll /\ instanceId \notin insts.options
       THEN [passed |-> << >>, out |-> << >>, threw |-> TRUE]
       ELSE apiEmit(
              [type |-> "EMIT", message |-> lifted.message,
               action |-> lifted.action,
               state |-> nonReduxDispatch(lifted.message, instanceId,
                           lifted.action, lifted.state,
                           Inst(insts.states)).value,
               instanceId |-> instanceId],
              connected)

\* The middleware on a LIFTED_ACTION: next(action), then
\* dispatchRemoteAction.
apiLifted(lifted, insts, connected) ==
  LET r == dispatchRemoteAction(lifted, insts, connected)
  IN [passed |-> << lifted >> \o r.passed, out |-> r.out, threw |-> r.threw]

LiftedActions ==
  [type : {"LIFTED_ACTION"},
   message : {"DISPATCH", "ACTION"},
   action : { ObjAction("ROLLBACK"), ObjAction("JUMP_TO_STATE") },
   state : { Obj([k \in {"count"} |-> Num(5)]) },
   toAll : BOOLEAN]

originVars == << build, singletonVars, pc, optionsName, initialState, store,
                 isRecording, client, awaiting, isInitialized, isInitializing,
                 listeners, sent, applied, ops, host >>

\* The App hands the channel client to the relay: connect stores it,
\* registers the listeners and dispatches EMIT START.
RelayConnect(max) ==
  /\ relayListeners < max
  /\ devToolsPluginClient' = 1
  /\ relayListeners' = relayListeners + 1
  /\ event' = [op |-> "connect",
               step |-> apiEmit([type |-> "EMIT", message |-> "START",
                                 action |-> NoAction, state |-> NoPayload,
                                 instanceId |-> Undefined], TRUE)]
  /\ UNCHANGED << originVars, instances, query, channelVars >>

\* The channel delivers a message on a topic to the registered listeners.
\* A state message is delivered only while the log is shorter than limit.
ChannelMessage(topic, data, limit) ==
  /\ relayListeners > 0
  /\ LET id == nameOrFallback(data)
         before == Len(LogOf(instances, id))
         r == listenAll(relayListeners, topic, data,
                        [instances |-> instances, out |-> << >>],
                        devToolsPluginClient # Null)
     IN /\ topic = "state" => before < limit
        /\ instances' = r.instances
        /\ event' = [op |-> "message", topic |-> topic, data |-> data,
                     out |-> r.out,
                     dropped |-> IF topic = "state"
                                   THEN before + 1
                                        - Len(LogOf(r.instances, id))
                                   ELSE 0]
  /\ UNCHANGED << originVars, devToolsPluginClient, relayListeners, query,
                  channelVars >>

\* The UI dispatches a lifted command.
LiftedAction(lifted) ==
  /\ event' = [op |-> "lifted", lifted |-> lifted,
               step |-> apiLifted(lifted, instances,
                                  devToolsPluginClient # Null)]
  /\ UNCHANGED << originVars, relayVars >>

\* The UI selects one of the instances it lists, or none.
SelectInstance(id) ==
  /\ id \in instances.options \cup {Undefined}
  /\ id # instances.selected
  /\ instances' = selectInstance(instances, id)
  /\ event' = [op |-> "select", id |-> id]
  /\ UNCHANGED << originVars, devToolsPluginClient, relayListeners, query,
                  channelVars >>

\* The UI switches sync mode on or off.
ToggleSync ==
  /\ instances' = toggleSync(instances)
  /\ event' = [op |-> "sync"]
  /\ UNCHANGED << originVars, devToolsPluginClient, relayListeners, query,
                  channelVars >>

InitObserver ==
  /\ InitState("ts")
  /\ host = Host(0, 0)
  /\ query = NoQuery

NextObserver ==
  \/ RelayConnect(1)
  \/ \E topic \in {"init", "state", "ping"}, data \in ObserverData :
       ChannelMessage(topic, data, MaxLog)
  \/ \E lifted \in LiftedActions : LiftedAction(lifted)
  \/ \E id \in InstanceIds \cup {FallbackName, Undefined} : SelectInstance(id)
  \/ ToggleSync

SpecObserver == InitObserver /\ [][NextObserver]_vars

NextEviction ==
  \/ RelayConnect(1)
  \/ \E topic \in {"init", "state"}, data \in EvictionData :
       ChannelMessage(topic, data, MaxAge + 1)

SpecEviction == InitObserver /\ [][NextEviction]_vars

\* ---------------------------------------------- sessions and relay joined
\* The channel carries JSON: what a session sends arrives at the relay as the
\* value its serialization parses to.
toJson(v) ==
  IF v.t = "object" THEN Obj([k \in DOMAIN v.v |-> Num(v.v[k])]) ELSE v

\* The text of a payload as it arrives at a session.
fromJsonText(text) ==
  IF text.tok = "object"
    THEN JsonObjectText([k \in DOMAIN text.v |->
           IF text.v[k].t = "number" THEN text.v[k].n ELSE text.v[k]])
    ELSE text

\* A message of the relay as the dispatch listeners of the sessions get it.
toSession(m) ==
  Msg(m.type, m.action,
      IF m.state.kind = "string"
        THEN StringPayload(fromJsonText(m.state.text)) ELSE m.state,
      m.instanceId)
toSessions(out) ==
  LET dispatches == SelectSeq(out, LAMBDA m : m.topic = "dispatch")
  IN [i \in DOMAIN dispatches |-> toSession(dispatches[i])]

\* The commands the UI issues in the joined runs.
BridgeCommands ==
  [type : {"LIFTED_ACTION"},
   message : {"DISPATCH"},
   action : { ObjAction("RESET"), ObjAction("ROLLBACK"), ObjAction("COMMIT"),
              ObjAction("JUMP_TO_STATE") },
   state : { UndefinedV },
   toAll : {FALSE}]
  \cup
  [type : {"LIFTED_ACTION"},
   message : {"ACTION"},
   action : { ActionText("__setState", Obj([k \in {"text"} |-> 1])),
              ActionText("other", UndefinedV) },
   state : { UndefinedV },
   toAll : {FALSE}]

\* The App hands the channel client to the relay; the START that connect
\* emits travels to the sessions.
BridgeConnect ==
  /\ relayListeners = 0
  /\ devToolsPluginClient' = 1
  /\ relayListeners' = 1
  /\ LET step == apiEmit([type |-> "EMIT", message |-> "START",
                          action |-> NoAction, state |-> NoPayload,
                          instanceId |-> Undefined], TRUE)
     IN /\ event' = [op |-> "connect", step |-> step]
        /\ inbox' = inbox \o toSessions(step.out)
  /\ UNCHANGED << originVars, instances, query, delivered >>

\* The channel hands the next message of a session to the relay's
\* listeners (there are none before connect); what they send travels back.
Forward ==
  /\ delivered < Len(sent)
  /\ LET m == sent[delivered + 1]
         data == Data(m.name, m.type, toJson(m.state))
         r == listenAll(relayListeners, m.topic, data,
                        [instances |-> instances, out |-> << >>],
                        devToolsPluginClient # Null)
     IN /\ instances' = r.instances
        /\ inbox' = inbox \o toSessions(r.out)
        /\ event' = [op |-> "forward", from |-> m.from, topic |-> m.topic,
                     data |-> data, out |-> r.out,
                     before |-> instances.states]
  /\ delivered' = delivered + 1
  /\ UNCHANGED << originVars, devToolsPluginClient, relayListeners, query >>

\* The channel hands the next message of the relay to the dispatch
\* listeners of the sessions.
Receive ==
  /\ inbox # << >>
  /\ LET c == deliver(listeners, Head(inbox), Ctx)
     IN /\ store' = c.store
        /\ isRecording' = c.rec
        /\ sent' = c.sent
        /\ event' = [op |-> "dispatch", message |-> Head(inbox),
                     setCalls |-> c.setCalls, errors |-> c.errors,
                     threw |-> c.threw, dispatched |-> c.dispatched]
  /\ inbox' = Tail(inbox)
  /\ UNCHANGED << build, singletonVars, pc, optionsName, initialState, client,
                  awaiting, isInitialized, isInitializing, listeners, applied,
                  ops, host, devToolsPluginClient, relayListeners, instances,
                  query, delivered >>

\* The UI issues a lifted command; what the relay sends travels to the
\* sessions.
BridgeLifted(lifted) ==
  /\ ops < host.maxOps
  /\ LET step == apiLifted(lifted, instances, devToolsPluginClient # Null)
     IN /\ event' = [op |-> "lifted", lifted |-> lifted, step |-> step]
        /\ inbox' = inbox \o toSessions(step.out)
  /\ ops' = ops + 1
  /\ UNCHANGED << build, singletonVars, pc, optionsName, initialState, store,
                  isRecording, client, awaiting, isInitialized, isInitializing,
                  listeners, sent, applied, host, devToolsPluginClient,
                  relayListeners, instances, query, delivered >>

InitBridge ==
  /\ InitState("ts")
  /\ query = NoQuery
  /\ host \in { [Host(NumSessions, MaxOpsBridge) EXCEPT !.dispatcher = d] :
                 d \in {"none", "both"} }

NextBridge ==
  \/ \E s \in Sessions, name \in OptionNames, st \in InitialStates :
       Wrap(s, name, st, TRUE, NoCall)
  \/ \E p \in 1..NumSessions, ok \in BOOLEAN : ConnectSettles(p, ok)
  \/ \E s \in Sessions : InitializeClientResumes(s)
  \/ \E s \in Sessions : StartupThen(s)
  \/ \E s \in Sessions, state \in Partials, nameOrAction \in Actions :
       SetState(s, state, FALSE, nameOrAction, FALSE)
  \/ BridgeConnect
  \/ Forward
  \/ Receive
  \/ \E lifted \in BridgeCommands : BridgeLifted(lifted)
  \/ \E id \in InstanceIds \cup {FallbackName, Undefined} : SelectInstance(id)
  \/ ToggleSync

\* Sessions, channel and relay together.
SpecBridge == InitBridge /\ [][NextBridge]_vars

\* The App's effect runs connect again (a client that changed, or an effect
\* that is run twice); the listeners registered before stay registered.
NextReconnect ==
  \/ RelayConnect(MaxConnects)
  \/ \E topic \in {"init", "state", "ping"}, data \in ObserverData :
       ChannelMessage(topic, data, MaxLog)

SpecReconnect == InitObserver /\ [][NextReconnect]_vars

\* ============================================================== claims
\* Helpers for the properties below.
FromSession(seq, s) == SelectSeq(seq, LAMBDA m : m.from = s)
StateMsgs(s) == SelectSeq(sent, LAMBDA m : m.from = s /\ m.topic = "state")
StartupInits(s) ==
  SelectSeq(sent, LAMBDA m : m.from = s /\ m.topic = "init" /\ m.cause = "startup")
\* The messages the step appends to the channel.
NewMsgs == SubSeq(sent', Len(sent) + 1, Len(sent'))
Listening(s) == \E i \in DOMAIN listeners : listeners[i] = s
Resumed(s) == pc[s] \in {"thenPending", "started"}
SetCalledBy(e, s) == \E i \in DOMAIN e.setCalls : e.setCalls[i].s = s
TypeAndState(seq) == [i \in DOMAIN seq |-> << seq[i].type, seq[i].state >>]
IsCommand(e, ty) ==
  /\ e.op = "dispatch"
  /\ e.message.type = "DISPATCH"
  /\ e.message.action.kind = "object"
  /\ e.message.action.type = ty

\* C1: however many sessions acquire the shared client, also while the
\* first connect is in flight, getDevToolsPluginClientAsync is called exactly
\* once and every session resolves to what that one call produced (the same
\* client, or null for all when it failed).
C1_SingleConnect ==
  /\ connectCalls <= 1
  /\ (\E s \in Sessions : pc[s] # "absent") => connectCalls = 1
  /\ \A s \in Sessions : Resumed(s) => client[s] = promises[1].value

C1_Witness ==
  /\ \A s \in Sessions : Resumed(s) /\ client[s] # Null
  /\ \E s \in Sessions : awaiting[s].kind = "promise" /\ s > 1
  /\ connectCalls = 1

\* C2 (as claimed): a typed dispatch message addressed to another instance id
\* is ignored by the session: no store change, no recording toggle, no send.
C2_OtherInstanceIgnored ==
  [][ \A s \in Sessions :
        ( /\ event'.op = "dispatch"
          /\ Listening(s)
          /\ event'.message.type # Undefined
          /\ event'.message.instanceId # configuredName(s) )
        => /\ store'[s] = store[s]
           /\ isRecording'[s] = isRecording[s]
           /\ FromSession(NewMsgs, s) = << >> ]_vars

\* C3 (as claimed): once the channel is ready, every mutation made while
\* recording, those made before the channel was ready included, has its
\* state message, and there is exactly one init with the snapshot.
C3_PreReadyMutationSent ==
  \A s \in Sessions :
    (pc[s] = "started" /\ client[s] # Null)
    => /\ TypeAndState(StateMsgs(s))
            = TypeAndState(SelectSeq(applied[s], LAMBDA e : e.recording))
       /\ Len(StartupInits(s)) = 1
       /\ StartupInits(s)[1].state = initialState[s]

\* C4: a state applied from the observer (RESET, ROLLBACK, JUMP_TO_STATE,
\* JUMP_TO_ACTION, __setState) produces no state message, and the recording
\* flag after the apply is what it was before it.
C4_RemoteApplyNotRecorded ==
  [][ \A s \in Sessions :
        (event'.op = "dispatch" /\ SetCalledBy(event', s))
        => /\ isRecording'[s] = isRecording[s]
           /\ \A i \in DOMAIN NewMsgs :
                NewMsgs[i].from = s => NewMsgs[i].topic # "state" ]_vars

C4_Witness ==
  /\ event.op = "dispatch"
  /\ \E s \in Sessions : SetCalledBy(event, s) /\ ~isRecording[s]

\* C5: while recording is paused a mutation sends nothing and is still
\* applied; PAUSE_RECORDING itself sends nothing; and a mutation made while
\* recording sends at most its own state message, so nothing made during the
\* pause is sent afterwards.
C5_PauseSemantics ==
  [][ /\ \A s \in Sessions :
           (event'.op = "setState" /\ event'.s = s)
           => /\ store'[s] = originalSetState(store[s], event'.state,
                                              event'.replace)
              /\ ~isRecording[s] => sent' = sent
              /\ \/ sent' = sent
                 \/ /\ Len(sent') = Len(sent) + 1
                    /\ NewMsgs[1].topic = "state"
                    /\ NewMsgs[1].from = s
                    /\ NewMsgs[1].state = store'[s]
              /\ (isRecording[s] /\ client[s] # Null) => sent' # sent
      /\ IsCommand(event', "PAUSE_RECORDING")
           => /\ sent' = sent
              /\ \A s \in Sessions :
                   Listening(s) => isRecording'[s] = ~isRecording[s] ]_vars

C5_Witness ==
  /\ event.op = "setState"
  /\ ~isRecording[event.s]
  /\ client[event.s] # Null
  /\ Len(applied[event.s]) >= 1

\* C6: a session whose acquisition succeeded has sent, once started, exactly
\* one start-up init, tagged with its own name and carrying its own
\* initializer's snapshot whatever was applied before; before that it has sent
\* none; and all sessions send over the one shared client.
C6_OneStartupInit ==
  /\ \A s \in Sessions :
       /\ (pc[s] = "started" /\ client[s] # Null)
          => /\ Len(StartupInits(s)) = 1
             /\ StartupInits(s)[1].name = optionsName[s]
             /\ StartupInits(s)[1].state = initialState[s]
       /\ pc[s] # "started" => StartupInits(s) = << >>
  /\ \A i, j \in DOMAIN sent : sent[i].via = sent[j].via

C6_Witness ==
  /\ \A s \in Sessions : pc[s] = "started" /\ client[s] # Null
  /\ optionsName[1] # optionsName[2]
  /\ \E s \in Sessions : store[s] # initialState[s] /\ StateMsgs(s) = << >>

\* C7: the state messages of a session are, in order, the mutations that
\* were recorded (applied while recording with the channel ready), each with
\* the mutation's action type and the store state right after it.
C7_StateMessagesInOrder ==
  \A s \in Sessions :
    TypeAndState(StateMsgs(s))
      = TypeAndState(SelectSeq(applied[s], LAMBDA e : e.recording /\ e.ready))

C7_Witness ==
  \E s \in Sessions :
    /\ Len(StateMsgs(s)) >= 2
    /\ StateMsgs(s)[1].type # StateMsgs(s)[2].type
    /\ StateMsgs(s)[1].state # StateMsgs(s)[2].state

\* C8 (as claimed): after RESET the store equals the initializer's snapshot
\* and exactly one init carrying that snapshot was sent, and no state message.
C8_ResetRestoresSnapshot ==
  [][ \A s \in Sessions :
        (IsCommand(event', "RESET") /\ Listening(s))
        => /\ store'[s] = initialState[s]
           /\ Len(FromSession(NewMsgs, s)) = 1
           /\ FromSession(NewMsgs, s)[1].topic = "init"
           /\ FromSession(NewMsgs, s)[1].state = initialState[s] ]_vars

\* Whether message.state is a string that JSON.parse accepts.
PayloadParses(e) ==
  /\ e.message.state.kind = "string"
  /\ ~JSONparse(e.message.state.text).threw
ParsedPayload(e) == JSONparse(e.message.state.text).value

\* C9 (as claimed): ROLLBACK with a payload string that parses applies the
\* parsed value and sends exactly one init with the resulting state.
C9_RollbackAnyParsable ==
  [][ \A s \in Sessions :
        (IsCommand(event', "ROLLBACK") /\ PayloadParses(event') /\ Listening(s))
        => /\ \E i \in DOMAIN event'.setCalls :
                event'.setCalls[i] = [s |-> s, arg |-> ParsedPayload(event')]
           /\ Len(FromSession(NewMsgs, s)) = 1
           /\ FromSession(NewMsgs, s)[1].topic = "init"
           /\ FromSession(NewMsgs, s)[1].state = store'[s] ]_vars

\* C9 (amended): ROLLBACK with a payload string that parses to an object
\* merges it into the store without touching the recording flag and sends
\* exactly one message, an init carrying the store's resulting state.
C9_RollbackObject ==
  [][ \A s \in Sessions :
        ( /\ IsCommand(event', "ROLLBACK") /\ PayloadParses(event')
          /\ Truthy(ParsedPayload(event')) /\ Listening(s) )
        => /\ store'[s] = ObjectAssign(store[s], ParsedPayload(event'))
           /\ isRecording'[s] = isRecording[s]
           /\ Len(FromSession(NewMsgs, s)) = 1
           /\ FromSession(NewMsgs, s)[1].topic = "init"
           /\ FromSession(NewMsgs, s)[1].state = store'[s] ]_vars

C9_Witness ==
  /\ IsCommand(event, "ROLLBACK")
  /\ PayloadParses(event) /\ Truthy(ParsedPayload(event))
  /\ \E s \in Sessions :
       /\ SetCalledBy(event, s)
       /\ store[s] # ParsedPayload(event)
       /\ sent # << >> /\ sent[Len(sent)].cause = "ROLLBACK"

IsJump(e) == IsCommand(e, "JUMP_TO_STATE") \/ IsCommand(e, "JUMP_TO_ACTION")

\* C10 (as claimed): a jump command with a payload string that parses
\* applies the parsed value, sends nothing and leaves the recording flag.
C10_JumpAnyParsable ==
  [][ \A s \in Sessions :
        (IsJump(event') /\ PayloadParses(event') /\ Listening(s))
        => /\ \E i \in DOMAIN event'.setCalls :
                event'.setCalls[i] = [s |-> s, arg |-> ParsedPayload(event')]
           /\ FromSession(NewMsgs, s) = << >>
           /\ isRecording'[s] = isRecording[s] ]_vars

\* C10 (amended): a jump command with a payload string that parses to an
\* object merges it into the store, sends neither init nor state, and leaves
\* the recording flag as it was, on or paused.
C10_JumpObject ==
  [][ \A s \in Sessions :
        ( /\ IsJump(event') /\ PayloadParses(event')
          /\ Truthy(ParsedPayload(event')) /\ Listening(s) )
        => /\ store'[s] = ObjectAssign(store[s], ParsedPayload(event'))
           /\ FromSession(NewMsgs, s) = << >>
           /\ isRecording'[s] = isRecording[s] ]_vars

C10_Witness ==
  /\ IsCommand(event, "JUMP_TO_ACTION")
  /\ PayloadParses(event) /\ Truthy(ParsedPayload(event))
  /\ \E s \in Sessions : SetCalledBy(event, s) /\ ~isRecording[s]

\* C11 (as claimed): COMMIT never changes the store; with a payload string
\* (one that parses to an object) the session sends one init carrying the
\* parsed payload, and with no payload string it sends one init carrying the
\* store's current state.
C11_CommitAlwaysAnswers ==
  [][ \A s \in Sessions :
        (IsCommand(event', "COMMIT") /\ Listening(s))
        => /\ store'[s] = store[s]
           /\ (PayloadParses(event') /\ Truthy(ParsedPayload(event')))
              => /\ Len(FromSession(NewMsgs, s)) = 1
                 /\ FromSession(NewMsgs, s)[1].topic = "init"
                 /\ FromSession(NewMsgs, s)[1].state = ParsedPayload(event')
           /\ event'.message.state.kind # "string"
              => /\ Len(FromSession(NewMsgs, s)) = 1
                 /\ FromSession(NewMsgs, s)[1].topic = "init"
                 /\ FromSession(NewMsgs, s)[1].state = store[s] ]_vars

\* A DISPATCH command of the four that read message.state, carrying a string
\* that JSON.parse rejects.
IsMalformedCommand(e) ==
  /\ \E c \in PayloadCommands : IsCommand(e, c)
  /\ e.message.state.kind = "string"
  /\ JSONparse(e.message.state.text).threw

\* C12: a COMMIT, ROLLBACK, JUMP_TO_STATE or JUMP_TO_ACTION command whose
\* payload string is not valid JSON changes neither the store nor the
\* recording flag, sends nothing, is logged once by every listening session,
\* and no error leaves the message handler.
C12_MalformedPayloadIgnored ==
  [][ IsMalformedCommand(event')
      => /\ store' = store
         /\ isRecording' = isRecording
         /\ sent' = sent
         /\ event'.setCalls = << >>
         /\ event'.errors = Len(listeners)
         /\ ~event'.threw ]_vars

C12_Witness ==
  /\ IsMalformedCommand(event)
  /\ event.errors >= 1
  /\ \E s \in Sessions :
       Listening(s) /\ ~isRecording[s] /\ store[s] # initialState[s]

\* The type an explicit action asks for.
ExplicitType(a) == IF a.kind = "string" THEN a.name ELSE a.type

\* C13: a setState call that passes an explicit action (a name, or an object
\* with a type), inside the initializer or at any later time and in either
\* build, is given exactly that name or type, and the state message sent for
\* it carries it.
C13_ExplicitTypeVerbatim ==
  [][ /\ \A s \in Sessions : \A i \in DOMAIN applied'[s] :
           applied'[s][i].action.kind # "undefined"
           => applied'[s][i].type = ExplicitType(applied'[s][i].action)
      /\ (event'.op = "setState" /\ event'.action.kind # "undefined")
         => \A i \in DOMAIN NewMsgs :
              /\ NewMsgs[i].topic = "state"
              /\ NewMsgs[i].type = ExplicitType(event'.action) ]_vars

C13_Witness ==
  /\ event.op = "setState"
  /\ event.action.kind = "object"
  /\ event.replace
  /\ pc[event.s] = "thenPending"
  /\ sent # << >>
  /\ sent[Len(sent)].type = event.action.type
  /\ applied[event.s][1].during = "initializer"
  /\ applied[event.s][1].type = "inc"

\* The types that mark a mutation as part of start-up.
HydrationMarkers == {"@@HYDRATE", "@@REHYDRATE"}

IsUnlabeled(e) == e.op = "setState" /\ e.action.kind = "undefined"

\* C15 (as claimed): every state message sent for a setState call made after
\* the initializer returned, with no explicit action and without replace,
\* has the type anonymousActionType.
C15_LateCallIsAnonymous ==
  [][ (IsUnlabeled(event') /\ ~event'.replace)
      => \A i \in DOMAIN NewMsgs :
           NewMsgs[i].type = AnonymousActionType ]_vars

\* C16 (as claimed): every state message sent for a setState call with
\* replace true and no explicit action has the type "@@REHYDRATE".
C16_ReplaceIsRehydrate ==
  [][ (IsUnlabeled(event') /\ event'.replace)
      => \A i \in DOMAIN NewMsgs : NewMsgs[i].type = "@@REHYDRATE" ]_vars

\* A connect attempt has failed: its promise resolved to null.
ConnectFailed ==
  \E p \in DOMAIN promises :
    promises[p].status = "resolved" /\ promises[p].value = Null

\* C17: when the connect call rejects, creating a store still completes with
\* the initializer's state in the store, every later setState call returns
\* normally with its mutation applied, no session holds a client, and no
\* message is ever sent nor any dispatch listener registered.
C17_FailedConnectIsSilent ==
  [][ ConnectFailed'
      => /\ sent' = << >>
         /\ listeners' = << >>
         /\ \A s \in Sessions : client'[s] = Null
         /\ event'.op = "wrap"
            => /\ pc'[event'.s] = "awaitClient"
               /\ store'[event'.s] = initialState'[event'.s]
               /\ initialState'[event'.s] \in InitialStates
         /\ event'.op = "setState"
            => /\ ~event'.threw
               /\ store'[event'.s] = originalSetState(store[event'.s],
                                         event'.state, event'.replace) ]_vars

C17_Witness ==
  /\ ConnectFailed
  /\ \A s \in Sessions : pc[s] = "started"
  /\ event.op = "setState"
  /\ \E s \in Sessions : Len(applied[s]) >= 2 /\ store[s] # initialState[s]

\* C18: once a connect attempt has failed (and the singleton has not been
\* reset), no step starts another attempt, the singleton stays without a
\* client, a store created afterwards awaits the failed attempt's promise,
\* and every session that resumes gets null.
C18_NoRetryAfterFailure ==
  [][ ConnectFailed
      => /\ promises' = promises
         /\ sharedClient' = Null
         /\ clientInitializationPromise' = clientInitializationPromise
         /\ event'.op = "wrap"
            => /\ awaiting'[event'.s].kind = "promise"
               /\ promises[awaiting'[event'.s].p].value = Null
               /\ promises[awaiting'[event'.s].p].status = "resolved"
         /\ event'.op = "resume" => client'[event'.s] = Null ]_vars

C18_Witness ==
  /\ ConnectFailed
  /\ connectCalls = 1
  /\ event.op = "wrap"
  /\ event.s = 2
  /\ awaiting[2] = [kind |-> "promise", p |-> 1]
  /\ pc[1] = "started"

\* C19 (as claimed): a call of the wrapped setState never throws, also when
\* the channel's sendMessage throws while the mutation is being recorded,
\* and the mutation stays applied.
C19_SetStateReturnsNormally ==
  [][ event'.op = "setState"
      => /\ ~event'.threw
         /\ store'[event'.s] = originalSetState(store[event'.s],
                                   event'.state, event'.replace) ]_vars

\* C20: a store created with enabled: false (or through the production
\* export, which hands back the initializer itself) starts no connect, keeps
\* the store's own setState (the override never runs), holds no client and no
\* listener, and sends nothing whatever mutations follow; a mutation on it
\* is exactly the store's own setState.  With every store disabled there is
\* no connect attempt and no message at all.
C20_DisabledIsTransparent ==
  [][ /\ \A s \in Sessions :
           pc'[s] = "disabled"
           => /\ client'[s] = Null
              /\ awaiting'[s].kind = "none"
              /\ applied'[s] = << >>
              /\ \A i \in DOMAIN listeners' : listeners'[i] # s
              /\ \A i \in DOMAIN sent' : sent'[i].from # s
      /\ (event'.op = "wrap" /\ ~event'.enabled)
         => /\ pc'[event'.s] = "disabled"
            /\ promises' = promises
            /\ sent' = sent
            /\ store'[event'.s] \in InitialStates
      /\ (event'.op = "setState" /\ pc[event'.s] = "disabled")
         => /\ sent' = sent
            /\ isRecording' = isRecording
            /\ ~event'.threw
            /\ store'[event'.s] = originalSetState(store[event'.s],
                                      event'.state, event'.replace)
      /\ event'.op = "dispatch"
         => \A s \in Sessions : pc[s] = "disabled" => store'[s] = store[s]
      /\ (\A s \in Sessions : pc'[s] \in {"absent", "disabled"})
         => /\ connectCalls' = 0
            /\ sent' = << >>
            /\ listeners' = << >> ]_vars

C20_Witness ==
  /\ \A s \in Sessions : pc[s] = "disabled"
  /\ connectCalls = 0
  /\ ops = host.maxOps
  /\ event.op = "setState"
  /\ \A s \in Sessions : store[s] \notin InitialStates

\* --------------------------------------------------------------- C21
\* The instance a query names has a history; the index the query reads.
QueryKnown ==
  /\ query # NoQuery
  /\ query.instances.defined
  /\ query.instanceId \in DOMAIN query.instances.states
QueryHistory == query.instances.states[query.instanceId]
QueryRollback == query.action.kind = "object" /\ query.action.type = "ROLLBACK"
QueryInRange(n) == n + 1 \in DOMAIN QueryHistory.computedStates
Resolved == event.op = "resolve"

\* The payloads that come from one entry: its state, or the state nested in
\* it.
PayloadsOf(entry) ==
  { JSONstringify(entry.state) }
  \cup IF entry.state.t = "object" /\ "state" \in DOMAIN entry.state.v
         THEN { JSONstringify(entry.state.v["state"]) }
         ELSE {}

\* C21: for a lifted DISPATCH command on an instance that has a history, the
\* forwarded state payload comes from computedStates[0] when the action type
\* is ROLLBACK and from computedStates[currentStateIndex] otherwise.
C21_RollbackReadsFirstEntry ==
  (Resolved /\ QueryKnown /\ query.message = "DISPATCH") =>
    LET n == IF QueryRollback THEN 0 ELSE QueryHistory.currentStateIndex
    IN QueryInRange(n) =>
         event.result.value \in PayloadsOf(QueryHistory.computedStates[n + 1])

\* A ROLLBACK on a history whose pointer is at the second of two different
\* entries was answered with the first.
C21_Witness ==
  /\ Resolved /\ QueryKnown /\ query.message = "DISPATCH" /\ QueryRollback
  /\ QueryHistory.currentStateIndex = 1
  /\ Len(QueryHistory.computedStates) = 2
  /\ QueryHistory.computedStates[1].state = Obj([k \in {"count"} |-> Num(0)])
  /\ QueryHistory.computedStates[2].state = NullV
  /\ event.result.value
       = StringPayload(JsonObjectText([k \in {"count"} |-> Num(0)]))

\* --------------------------------------------------------------- C22
\* C22: when the entry a DISPATCH command resolves to holds an object with a
\* nested state field, the payload is that nested field; otherwise it is
\* the entry's state itself.
C22_NestedStateUnwrapped ==
  (Resolved /\ QueryKnown /\ query.message = "DISPATCH") =>
    LET n == IF QueryRollback THEN 0 ELSE QueryHistory.currentStateIndex
    IN QueryInRange(n) =>
         LET s == QueryHistory.computedStates[n + 1].state
         IN event.result.value =
              IF s.t = "object" /\ "state" \in DOMAIN s.v
                THEN JSONstringify(s.v["state"])
                ELSE JSONstringify(s)

\* The current entry holds {state: {count: 1}} and the payload is the text of
\* {count: 1}.
C22_Witness ==
  /\ Resolved /\ QueryKnown /\ query.message = "DISPATCH" /\ ~QueryRollback
  /\ QueryHistory.currentStateIndex = 1
  /\ Len(QueryHistory.computedStates) = 2
  /\ QueryHistory.computedStates[2].state
       = Obj([k \in {"state"} |-> Obj([j \in {"count"} |-> Num(1)])])
  /\ event.result.value
       = StringPayload(JsonObjectText([j \in {"count"} |-> Num(1)]))

\* --------------------------------------------------------------- C23
\* C23: when the instance has no history (or no instances are supplied), or
\* the lifted message is not DISPATCH, the payload is the serialized
\* caller-supplied state and nothing is thrown.
C23_CallerStateByDefault ==
  (Resolved /\ (~QueryKnown \/ query.message # "DISPATCH")) =>
    /\ ~event.result.threw
    /\ event.result.value = JSONstringify(query.state)

\* A DISPATCH for an instance without history was answered with the caller's
\* {count: 5}.
C23_Witness ==
  /\ Resolved /\ ~QueryKnown /\ query.message = "DISPATCH"
  /\ query.state = Obj([k \in {"count"} |-> Num(5)])
  /\ ~event.result.threw
  /\ event.result.value
       = StringPayload(JsonObjectText([k \in {"count"} |-> Num(5)]))

MessageId == nameOrFallback(event.data)
MessageHistory == instances.states[MessageId]
OnTopic(topic) == event.op = "message" /\ event.topic = topic

\* C25: right after a state-topic message appended entry i to a history,
\* the payload resolved at index i, after nested-state unwrapping, is the
\* serialization of the state the message carried.
C25_AppendedStateResolves ==
  OnTopic("state") =>
    nonReduxDispatch("DISPATCH", MessageId, ObjAction("JUMP_TO_STATE"),
                     UndefinedV, Inst(instances.states))
      = [threw |-> FALSE, value |-> JSONstringify(event.data.state)]

\* A message carrying {state: {count: 2}} was appended as the second entry.
C25_Witness ==
  /\ OnTopic("state")
  /\ event.data.state
       = Obj([k \in {"state"} |-> Obj([j \in {"count"} |-> Num(2)])])
  /\ MessageHistory.currentStateIndex = 1
  /\ MessageHistory.computedStates[2].state
       = Obj([k \in {"state"} |-> event.data.state])

\* --------------------------------------------------------------- C26
\* C26: after an init-topic message the history of the instance named by the
\* message, or of 'zustand-store' when it names none, is the one-entry log of
\* the message's state with currentStateIndex 0.
C26_InitResetsHistory ==
  OnTopic("init") =>
    LET id == IF event.data.name = Undefined
                THEN "zustand-store" ELSE event.data.name
    IN /\ id \in DOMAIN instances.states
       /\ instances.states[id]
            = History(<< [state |-> event.data.state] >>, 0)

\* An unnamed init message replaced a longer history of 'zustand-store'.
C26_Witness ==
  /\ OnTopic("init")
  /\ event.data.name = Undefined
  /\ instances.states["zustand-store"]
       = History(<< [state |-> event.data.state] >>, 0)
  /\ "A" \in DOMAIN instances.states
  /\ Len(instances.states["A"].computedStates) > 1

\* --------------------------------------------------------------- C27
\* C27: a state-topic message appends exactly one entry to the history of
\* its instance and moves currentStateIndex to the last index; the
\* histories of the other instances stay as they are.
C27_StateAppendsOne ==
  [][ (event'.op = "message" /\ event'.topic = "state") =>
        LET id == nameOrFallback(event'.data)
            new == LogOf(instances', id)
        IN /\ Len(new) = Len(LogOf(instances, id)) + 1
           /\ SubSeq(new, 1, Len(new) - 1) = LogOf(instances, id)
           /\ instances'.states[id].currentStateIndex = Len(new) - 1
           /\ \A other \in DOMAIN instances.states \ {id} :
                instances'.states[other] = instances.states[other] ]_vars

\* A state message for A made A's history three entries long while
\* 'zustand-store' kept a history of its own.
C27_Witness ==
  /\ OnTopic("state")
  /\ event.data.name = "A"
  /\ Len(instances.states["A"].computedStates) = 3
  /\ instances.states["A"].currentStateIndex = 2
  /\ "zustand-store" \in DOMAIN instances.states
  /\ Len(instances.states["zustand-store"].computedStates) = 2

\* --------------------------------------------------------------- C28
\* C28: in every history whose computedStates is not empty,
\* 0 <= currentStateIndex < Len(computedStates), also once more than
\* MaxAge entries have arrived and the oldest have been evicted.
C28_PointerInRange ==
  \A id \in DOMAIN instances.states :
    LET h == instances.states[id]
    IN h.computedStates # << >> =>
         /\ 0 <= h.currentStateIndex
         /\ h.currentStateIndex < Len(h.computedStates)

\* A state message arrived for a full log: one entry was evicted and the log
\* is MaxAge entries long.
C28_Witness ==
  /\ OnTopic("state")
  /\ event.dropped = 1
  /\ Len(MessageHistory.computedStates) = MaxAge
  /\ MessageHistory.currentStateIndex = MaxAge - 1

\* --------------------------------------------------------------- C29
\* C29: when an init-topic or a state-topic message has been applied, the
\* relay has sent exactly one SYNC message with the serialized history of
\* the instance if sync is on and the instance is the selected one, and
\* nothing otherwise.
C29_SyncEchoed ==
  (OnTopic("init") \/ OnTopic("state")) =>
    event.out =
      IF instances.sync /\ instances.selected = MessageId
        THEN << DispatchMessage("SYNC", NoAction,
                  StringPayload([tok |-> "history", v |-> MessageHistory]),
                  MessageId) >>
        ELSE << >>

\* --------------------------------------------------------------- C30
\* The instance a lifted command is for: the selected one, or else the
\* current one.
ActiveInstance ==
  IF instances.selected # Undefined THEN instances.selected
  ELSE instances.current

C38_InitStateResolves ==
  OnTopic("init") =>
    \A ty \in {"ROLLBACK", "JUMP_TO_STATE"} :
      nonReduxDispatch("DISPATCH", MessageId, ObjAction(ty), UndefinedV,
                       Inst(instances.states))
        = [threw |-> FALSE, value |-> JSONstringify(event.data.state)]

\* --------------------------------------------------------------- C39
\* C39: however often connect has run, one init or state message changes
\* the histories as a single application of its listener does.
C39_ConnectIdempotent ==
  [][ (event'.op = "message" /\ event'.topic \in {"init", "state"}) =>
        instances' = listen(event'.topic, event'.data,
                            [instances |-> instances, out |-> << >>],
                            TRUE).instances ]_vars

\* --------------------------------------------------------------- C31
\* The action string of a message parses to an object of type __setState.
IsSetStateAction(m) ==
  /\ m.action.kind = "string"
  /\ m.action.text.tok = "action"
  /\ m.action.text.type = "__setState"

\* C31: an ACTION message whose action string parses to an object of type
\* __setState makes every listening session call its setter once with that
\* object's state, merges it into the store, sends nothing and leaves the
\* recording flags as they were; any other ACTION message leaves every store
\* unchanged unless the store exposes dispatchFromDevtools and a dispatch
\* function.
C31_ActionMessage ==
  [][ (event'.op = "dispatch" /\ event'.message.type = "ACTION") =>
        IF IsSetStateAction(event'.message)
          THEN /\ event'.setCalls =
                    [i \in 1..Len(listeners) |->
                       [s |-> listeners[i],
                        arg |-> event'.message.action.text.state]]
               /\ \A i \in 1..Len(listeners) :
                    store'[listeners[i]] =
                      originalSetState(store[listeners[i]],
                        event'.message.action.text.state, FALSE)
               /\ sent' = sent
               /\ isRecording' = isRecording
          ELSE host.dispatcher # "both" => store' = store ]_vars

\* The first operation on a store with a dispatch function but without
\* dispatchFromDevtools was a __setState message: its state was merged into
\* the store.
C31_Witness ==
  /\ event.op = "dispatch"
  /\ event.message.type = "ACTION"
  /\ IsSetStateAction(event.message)
  /\ ops = 1
  /\ host.dispatcher = "functionOnly"
  /\ store[1] = Obj([k \in {"count", "text"} |-> IF k = "count" THEN 0 ELSE 1])
  /\ Len(event.setCalls) = 1

\* --------------------------------------------------------------- C34
\* C34: between steps, the recording flag of a session changes exactly when
\* the session handles a PAUSE_RECORDING command; as it starts on, it is off
\* exactly after an odd number of them.  No mutation, no other command and
\* no payload that fails to parse changes it.
C34_FlagFollowsPauses ==
  [][ \A s \in Sessions :
        (isRecording'[s] # isRecording[s])
          <=> (IsCommand(event', "PAUSE_RECORDING") /\ Listening(s)) ]_vars

\* A second PAUSE_RECORDING switched recording back on for both sessions.
C34_Witness ==
  /\ IsCommand(event, "PAUSE_RECORDING")
  /\ ops = 2
  /\ Listening(1) /\ Listening(2)
  /\ isRecording[1] /\ isRecording[2]

\* --------------------------------------------------------------- C35
\* A command or action message that applies a state: RESET, or a rollback,
\* jump or __setState whose payload is an object.
AppliesState(e) ==
  /\ e.op = "dispatch"
  /\ \/ IsCommand(e, "RESET")
     \/ /\ \/ IsCommand(e, "ROLLBACK")
           \/ IsCommand(e, "JUMP_TO_STATE")
           \/ IsCommand(e, "JUMP_TO_ACTION")
        /\ e.message.state.kind = "string"
        /\ e.message.state.text.tok = "object"
     \/ e.message.type = "ACTION" /\ IsSetStateAction(e.message)

\* C35: a remote apply calls the setter of every listening session once,
\* and the setter merges: each key of the applied object takes the object's
\* value, each other key of the store keeps its value.
C35_RemoteApplyMerges ==
  [][ AppliesState(event') =>
        /\ Len(event'.setCalls) = Len(listeners)
        /\ \A i \in DOMAIN event'.setCalls :
             LET s == event'.setCalls[i].s
                 arg == event'.setCalls[i].arg
             IN /\ s = listeners[i]
                /\ arg.t = "object"
                /\ store'[s].t = "object"
                /\ DOMAIN store'[s].v = DOMAIN store[s].v \cup DOMAIN arg.v
                /\ \A k \in DOMAIN arg.v : store'[s].v[k] = arg.v[k]
                /\ \A k \in DOMAIN store[s].v \ DOMAIN arg.v :
                     store'[s].v[k] = store[s].v[k] ]_vars

\* A rollback to {count: 1} changed count and kept the text key a setState
\* call had added.
C35_Witness ==
  /\ AppliesState(event)
  /\ IsCommand(event, "ROLLBACK")
  /\ event.setCalls = << [s |-> 1, arg |-> Obj([k \in {"count"} |-> 1])] >>
  /\ store[1] = Obj([k \in {"count", "text"} |-> 1])

\* --------------------------------------------------------------- C36
\* C36: a message on the dispatch topic whose type is neither ACTION nor
\* DISPATCH (the START of a connecting observer, its SYNC echo, a message
\* without type) changes no store and no recording flag, calls no setter and
\* makes no session send anything.
C36_OtherTypesIgnored ==
  [][ (event'.op = "dispatch"
         /\ event'.message.type \notin {"ACTION", "DISPATCH"}) =>
        /\ store' = store
        /\ isRecording' = isRecording
        /\ sent' = sent
        /\ event'.setCalls = << >>
        /\ event'.dispatched = << >> ]_vars

\* An observer's START reached a session that had sent its start-up init:
\* that init is still the only message on the channel.
C36_Witness ==
  /\ event.op = "dispatch"
  /\ event.message.type = "START"
  /\ Listening(1)
  /\ pc[1] = "started"
  /\ Len(sent) = 1
  /\ sent[1].topic = "init"
  /\ sent[1].cause = "startup"

\* --------------------------------------------------------------- C32
\* C32: the first message a session sends on the channel is an init: no
\* state message of a session precedes its first init.
C32_InitFirst ==
  \A s \in Sessions :
    FromSession(sent, s) # << >> => FromSession(sent, s)[1].topic = "init"

\* --------------------------------------------------------------- C33
\* C33: the client the singleton caches never comes from a connect attempt
\* that was started before the last reset, and an acquire made while
\* nothing is cached waits for an attempt started after it.
C33_StaleAttemptNeverCached ==
  /\ sharedClient # Null => ~promises[sharedClient].beforeReset
  /\ clientInitializationPromise # Null =>
       ~promises[clientInitializationPromise].beforeReset

\* --------------------------------------------------------------- C40
\* The channel handed a message of a session to the relay's listeners.
Forwarded == event'.op = "forward" /\ delivered' = delivered + 1

Received == event'.op = "dispatch" /\ Len(inbox) > 0 /\ inbox' = Tail(inbox)

\* C37: the exchange between sessions and relay dies out.  What the
\* sessions send on receiving a DISPATCH command are inits only; on
\* receiving an ACTION they send at most the state updates of the store's
\* own dispatch; on receiving anything else (SYNC, START) they send nothing.
\* What the relay sends on receiving an init or a state message are SYNC
\* messages only, and nothing after an init.  So the number of messages the
\* sessions ever send is bounded by their start-up inits plus one reply per
\* session and operation.
C37_ExchangeDiesOut ==
  [][ /\ Received =>
           /\ Head(inbox).type = "DISPATCH" =>
                \A i \in DOMAIN NewMsgs : NewMsgs[i].topic = "init"
           /\ Head(inbox).type = "ACTION" =>
                /\ \A i \in DOMAIN NewMsgs : NewMsgs[i].topic = "state"
                /\ Len(NewMsgs) = Len(event'.dispatched)
           /\ Head(inbox).type \notin {"ACTION", "DISPATCH"} => sent' = sent
      /\ Forwarded =>
           /\ \A i \in DOMAIN event'.out :
                /\ event'.out[i].topic = "dispatch"
                /\ event'.out[i].type = "SYNC"
           /\ event'.topic = "init" => event'.out = << >>
           /\ Len(inbox') = Len(inbox) + Len(event'.out)
      /\ Len(sent') <= NumSessions * (1 + ops') ]_vars

\* A session received the SYNC echo of its own state update and sent
\* nothing: the update is still its last message.
C37_Witness ==
  /\ event.op = "dispatch"
  /\ event.message.type = "SYNC"
  /\ Listening(1)
  /\ delivered = Len(sent)
  /\ Len(sent) > 0
  /\ sent[Len(sent)].topic = "state"
  /\ sent[Len(sent)].from = 1
  /\ inbox = << >>

====
